---- MODULE Spec2Model ----
(***************************************************************************)
(* A model of the two stateful services of the dashboard:                  *)
(*                                                                         *)
(*   AgentDecisionLoop      (src/unnamed/part_001)  per-agent timers,      *)
(*                          lifecycle status and decision cycles;          *)
(*   MCPIntegrationService  (src/unnamed/part_003)  permission sets,       *)
(*                          sessions, the call log and tool usage.         *)
(*                                                                         *)
(* Both run on one JavaScript event loop: the code between two awaits is   *)
(* one atomic step, and every await on an external call (backend, LLM,     *)
(* tool implementation) is a point where other callbacks interleave.       *)
(* An action of this module is one such atomic step.                       *)
(***************************************************************************)
EXTENDS Integers, Sequences, FiniteSets, Bags, TLC

(***************************************************************************)
(* Bounds of the model.                                                    *)
(***************************************************************************)
\* startAgent calls issued in one behaviour
MaxStarts == 2
\* timer ticks (decision cycles begun) in one behaviour
MaxTicks == 2
\* decision cycles of one agent in flight at the same time
MaxCycles == 2
\* callTool invocations in one behaviour
MaxCalls == 2
\* activateForAgent calls in one behaviour
MaxActivations == 2
\* last instant of the clock (Date.now())
MaxTime == 1
\* stopAgent calls made for one agent while its status is already 'stopped'
MaxRestops == 1
\* startAllAgents and stopAllAgents calls in one behaviour
MaxBatches == 2

(***************************************************************************)
(* Program constants.                                                      *)
(***************************************************************************)
\* handleDecisionError: errorCount > 10
ErrorThreshold == 10
\* logCall: keep only the last 1000 logs
MaxCallLogs == 1000
\* createAgentPermissions: maxCallsPerMinute
DefaultMaxCallsPerMinute == 60

Agents == {"a1", "a2"}

\* activeLoops.get(agentId) when the map has no entry
NoTimer == 0

VARIABLES
  \* ---- AgentDecisionLoop ----
  activeLoops,   \* Map agentId -> timer: [Agents -> timer id or NoTimer]
  agentStates,   \* Map agentId -> Agent: status ("unknown" = no entry) and counters
  timers,        \* every timer setInterval has created, in creation order
  startCalls,    \* bag of startAgent calls suspended at an await
  cycles,        \* bag of executeDecisionCycle calls suspended at an await
  startsLeft,    \* startAgent calls the environment may still issue
  ticksLeft,     \* ticks the timers may still deliver
  consecFails,   \* history: consecutive failed cycles of each agent
  overlapped,    \* history: a startAgent call began while another was in flight
  restops,       \* history: stopAgent calls made while the status was 'stopped'
  batch,         \* the startAllAgents / stopAllAgents call in flight, and its history
  fetching,      \* bag of cycles in their snapshot fetches, and the requests they sent
  \* ---- MCPIntegrationService ----
  now,              \* Date.now()
  agentPermissions, \* Map agentId -> MCPAgentPermissions (NoPerm = no entry)
  sessions,         \* Map sessionId -> MCPSession, in insertion order
  callLogs,         \* MCPCallLog[]
  tools,            \* Map toolId -> MCPTool
  rateLimits,       \* Map key -> {count, resetTime}: the set of its keys
  toolCalls,        \* bag of callTool invocations suspended in executeTool
  callsLeft,        \* callTool invocations the environment may still issue
  activationsLeft,  \* activateForAgent calls the environment may still issue
  returned,         \* history: callTool invocations finished, per tool id
  windowCalls,      \* history: calls of each agent dispatched in the current window
  queried,          \* the last getAvailableTools call and what it returned
  activateAll       \* the activateForAllAgents call in flight, and the event it emitted

loopVars == <<activeLoops, agentStates, timers, startCalls, cycles,
              startsLeft, ticksLeft, consecFails, overlapped, restops, batch,
              fetching>>
mcpVars == <<now, agentPermissions, sessions, callLogs, tools, rateLimits,
             toolCalls, callsLeft, activationsLeft, returned, windowCalls>>
apiVars == <<queried, activateAll>>
vars == <<loopVars, mcpVars, apiVars>>

(***************************************************************************)
(* AgentDecisionLoop                                                       *)
(***************************************************************************)

Statuses == {"unknown", "active", "paused", "stopped", "error"}

\* The performance counters loadAgent finds stored for each agent (backend
\* or localStorage): a1 has ErrorThreshold decisions behind it, none of them
\* successful, and a2 is new.
StoredPerformance(a) ==
  IF a = "a1" THEN [totalDecisions |-> ErrorThreshold, successfulDecisions |-> 0]
  ELSE [totalDecisions |-> 0, successfulDecisions |-> 0]

\* agentStates.get(agentId) is undefined
NoAgent == [status |-> "unknown", totalDecisions |-> 0, successfulDecisions |-> 0]

HasAgent(a) == agentStates[a].status # "unknown"

\* handleDecisionError: totalDecisions - successfulDecisions
ErrorCount(a) == agentStates[a].totalDecisions - agentStates[a].successfulDecisions

TimerIds == 1..Len(timers)
TimersOf(a) == {t \in TimerIds : timers[t].agent = a}
LiveTimers(a) == {t \in TimersOf(a) : timers[t].live}

\* clearInterval on the agent's newest timer, whatever activeLoops records
ClearedNewestTimer(a, by) ==
  IF TimersOf(a) # {}
  THEN LET t == CHOOSE x \in TimersOf(a) : \A y \in TimersOf(a) : y <= x
       IN [timers EXCEPT ![t] = [@ EXCEPT !.live = FALSE, !.cancels = @ + 1, !.by = by]]
  ELSE timers

\* clearInterval(interval); activeLoops.delete(agentId) -- when the map has an entry
ClearedTimers(a, by) ==
  IF activeLoops[a] # NoTimer
  THEN [timers EXCEPT ![activeLoops[a]] =
          [@ EXCEPT !.live = FALSE, !.cancels = @ + 1, !.by = by]]
  ELSE timers

\* stopAgent / pauseAgent without clearInterval: the entry leaves the map and
\* the timer goes on
HaltAgentNoClear(a, status, by) ==
  /\ timers' = timers
  /\ activeLoops' = [activeLoops EXCEPT ![a] = NoTimer]
  /\ agentStates' = IF HasAgent(a)
                    THEN [agentStates EXCEPT ![a].status = status]
                    ELSE agentStates

\* stopAgent / pauseAgent that set the status of every agent the map knows
HaltEveryAgent(a, status, by) ==
  /\ timers' = ClearedTimers(a, by)
  /\ activeLoops' = [activeLoops EXCEPT ![a] = NoTimer]
  /\ agentStates' = [b \in Agents |->
                       IF HasAgent(b) THEN [agentStates[b] EXCEPT !.status = status]
                       ELSE agentStates[b]]

\* stopAgent / pauseAgent up to their await: cancel the recorded timer and
\* set the status of a known agent.
HaltAgent(a, status, by) ==
  /\ timers' = ClearedTimers(a, by)
  /\ activeLoops' = [activeLoops EXCEPT ![a] = NoTimer]
  /\ agentStates' = IF HasAgent(a)
                    THEN [agentStates EXCEPT ![a].status = status]
                    ELSE agentStates

InFlightStarts(a) == {c \in BagToSet(startCalls) : c.agent = a}
InFlightCycles(a) == {c \in BagToSet(cycles) : c.agent = a}
NumCycles(a) ==
  LET S == InFlightCycles(a)
      RECURSIVE Sum(_)
      Sum(T) == IF T = {} THEN 0
                ELSE LET c == CHOOSE x \in T : TRUE
                     IN CopiesIn(c, cycles) + Sum(T \ {c})
  IN Sum(S)

\* A startAgent call suspended at an await, and who awaits it: "user" or
\* the loop of startAllAgents ("all")
StartCallOf(a, pc, caller) == [agent |-> a, pc |-> pc, caller |-> caller]
StartCall(a, pc) == StartCallOf(a, pc, "user")
\* An executeDecisionCycle call suspended at an await, with the decision
\* makeDecision returned to it (NoDecision before that, and in the error
\* handler, which does not read it)
NoDecision == [action |-> "", reasoning |-> "", symbol |-> "", quantity |-> 0, price |-> 0]
CycleOf(a, pc, frozen, d) == [agent |-> a, pc |-> pc, frozenErr |-> frozen, decision |-> d]
Cycle(a, pc, frozen) == CycleOf(a, pc, frozen, NoDecision)
\* handleDecisionError reads agent.performance of the live Agent object
Live == -1

Replace(bag, old, new) == (bag (-) SetToBag({old})) (+) SetToBag({new})
Remove(bag, old) == bag (-) SetToBag({old})

\* No startAllAgents / stopAllAgents call is in flight
Idle(left) == [op |-> "none", rest |-> <<>>, listed |-> {}, processed |-> {}, left |-> left]

\* startAgent returned to its caller. The loop of startAllAgents goes on to
\* the next agent of its list, calling startAgent for it, which runs to its
\* await of loadAgent.
StartReturned(c) ==
  IF c.caller = "all" /\ batch.rest # <<>>
  THEN LET next == Head(batch.rest)
       IN /\ startCalls' = Remove(startCalls, c) (+) SetToBag({StartCallOf(next, "load", "all")})
          /\ overlapped' = [overlapped EXCEPT ![next] = @ \/ InFlightStarts(next) \ {c} # {}]
          /\ batch' = [batch EXCEPT !.rest = Tail(@), !.processed = @ \cup {next}]
  ELSE /\ startCalls' = Remove(startCalls, c)
       /\ overlapped' = overlapped
       /\ batch' = IF c.caller = "all" THEN [batch EXCEPT !.op = "none"] ELSE batch

\* startAgent rethrew (line 89). In startAllAgents the error leaves the for
\* loop for the catch of line 538, which logs it: the call is over.
StartThrew(c) ==
  /\ startCalls' = Remove(startCalls, c)
  /\ batch' = IF c.caller = "all" THEN [batch EXCEPT !.op = "none"] ELSE batch

\* startAgent, to `await this.loadAgent(agentId)`
StartAgentCall(a) ==
  /\ startsLeft > 0
  /\ startsLeft' = startsLeft - 1
  /\ startCalls' = startCalls (+) SetToBag({StartCall(a, "load")})
  /\ overlapped' = [overlapped EXCEPT ![a] = @ \/ InFlightStarts(a) # {}]
  /\ UNCHANGED <<activeLoops, agentStates, timers, cycles, ticksLeft, consecFails>>
  /\ UNCHANGED <<restops, batch, mcpVars, fetching, apiVars>>

\* loadAgent returned an agent: `await this.stopAgent(agentId)`, which runs to
\* its own await of updateAgentStatus
StartLoaded(a) ==
  \E c \in InFlightStarts(a) :
    /\ c.pc = "load"
    /\ HaltAgent(a, "stopped", "start")
    /\ startCalls' = Replace(startCalls, c, StartCallOf(a, "stopwait", c.caller))
    /\ UNCHANGED <<cycles, startsLeft, ticksLeft, consecFails, overlapped>>
    /\ UNCHANGED <<restops, batch, mcpVars, fetching, apiVars>>

\* startAgent that stops the running loop before it looks at what loadAgent
\* returned
StartNotFoundAfterStop(a) ==
  \E c \in InFlightStarts(a) :
    /\ c.pc = "load"
    /\ HaltAgent(a, "stopped", "start")
    /\ StartThrew(c)
    /\ UNCHANGED <<cycles, startsLeft, ticksLeft, consecFails, overlapped>>
    /\ UNCHANGED <<restops, mcpVars, fetching, apiVars>>

\* loadAgent returned null: throw, caught at line 86; updateAgentStatus(..,
\* 'error') writes the status to the backend only, and the error is rethrown
StartNotFound(a) ==
  \E c \in InFlightStarts(a) :
    /\ c.pc = "load"
    /\ StartThrew(c)
    /\ UNCHANGED <<activeLoops, agentStates, timers, cycles, startsLeft, ticksLeft,
                   consecFails, overlapped>>
    /\ UNCHANGED <<restops, mcpVars, fetching, apiVars>>

\* A cycle suspended in handleDecisionError holds the Agent object it read
\* before its await; agentStates.set(agentId, {...agent, ..}) with a freshly
\* loaded agent leaves that old object, and its counters, behind.
FreezeErrors(a) ==
  LET S == {c \in InFlightCycles(a) : c.pc = "he_wait" /\ c.frozenErr = Live}
      RECURSIVE Go(_, _)
      Go(T, bag) ==
        IF T = {} THEN bag
        ELSE LET c == CHOOSE x \in T : TRUE
                 n == CopiesIn(c, bag)
                 f == Cycle(a, "he_wait", ErrorCount(a))
                 without == [x \in (DOMAIN bag) \ {c} |-> bag[x]]
             IN Go(T \ {c}, without (+) [x \in {f} |-> n])
  IN Go(S, cycles)

\* stopAgent returned; initializeServices; setInterval; activeLoops.set;
\* agentStates.set(.., status 'active'). The await of updateAgentStatus that
\* follows changes nothing in memory: the call is over for the model.
StartArm(a) ==
  \E c \in InFlightStarts(a) :
    /\ c.pc = "stopwait"
    /\ timers' = Append(timers, [agent |-> a, live |-> TRUE, cancels |-> 0, by |-> "none"])
    /\ activeLoops' = [activeLoops EXCEPT ![a] = Len(timers) + 1]
    /\ agentStates' = [agentStates EXCEPT ![a] =
                          [status |-> "active",
                           totalDecisions |-> StoredPerformance(a).totalDecisions,
                           successfulDecisions |-> StoredPerformance(a).successfulDecisions]]
    /\ cycles' = FreezeErrors(a)
    /\ StartReturned(c)
    /\ UNCHANGED <<startsLeft, ticksLeft, consecFails>>
    /\ UNCHANGED <<restops, mcpVars, fetching, apiVars>>

\* stopAgent called from outside. Its trailing await of updateAgentStatus
\* changes nothing in memory.
StopAgent(a) ==
  /\ HaltAgent(a, "stopped", "stop")
  /\ IF agentStates[a].status = "stopped"
     THEN restops[a] < MaxRestops /\ restops' = [restops EXCEPT ![a] = @ + 1]
     ELSE restops' = restops
  /\ UNCHANGED <<startCalls, cycles, startsLeft, ticksLeft, consecFails, overlapped>>
  /\ UNCHANGED <<batch, mcpVars, fetching, apiVars>>

\* pauseAgent called from outside
PauseAgent(a) ==
  /\ HaltAgent(a, "paused", "pause")
  /\ UNCHANGED <<startCalls, cycles, startsLeft, ticksLeft, consecFails, overlapped>>
  /\ UNCHANGED <<restops, batch, mcpVars, fetching, apiVars>>

(***************************************************************************)
(* The decision cycle                                                      *)
(***************************************************************************)

\* transformBackendAgent: the configuration every agent is loaded with, the
\* risk limit in percent (max_risk_per_trade || 0.05)
AgentConfig == [maxRiskPct |-> 5, symbols |-> {"BTC/USD", "ETH/USD"}]
\* getPortfolioState: the cash of the portfolio snapshot
PortfolioCash == 1000

\* The decisions the provider may return. "" and 0 are JavaScript's falsy
\* values of a missing string or number.
Decisions ==
  { [action |-> "buy",  reasoning |-> "r", symbol |-> "BTC/USD", quantity |-> 1, price |-> 40],
    [action |-> "buy",  reasoning |-> "r", symbol |-> "BTC/USD", quantity |-> 1, price |-> 60],
    [action |-> "sell", reasoning |-> "r", symbol |-> "ETH/USD", quantity |-> 1, price |-> 60],
    [action |-> "hold", reasoning |-> "r", symbol |-> "",        quantity |-> 0, price |-> 0],
    [action |-> "buy",  reasoning |-> "r", symbol |-> "SOL/USD", quantity |-> 1, price |-> 40],
    [action |-> "",     reasoning |-> "r", symbol |-> "BTC/USD", quantity |-> 1, price |-> 40],
    [action |-> "buy",  reasoning |-> "",  symbol |-> "BTC/USD", quantity |-> 1, price |-> 40] }

\* validateDecision without its symbol check
ValidateDecisionAnySymbol(d, cash, config) ==
  IF d.action = "" \/ d.reasoning = "" THEN FALSE
  ELSE IF /\ d.action = "buy"
          /\ d.quantity # 0
          /\ (d.quantity * d.price) * 100 > cash * config.maxRiskPct THEN FALSE
  ELSE TRUE

\* validateDecision. cost > cash * maxRiskPerTrade, both sides times 100.
ValidateDecision(d, cash, config) ==
  IF d.action = "" \/ d.reasoning = "" THEN FALSE
  ELSE IF /\ d.action = "buy"
          /\ d.quantity # 0
          /\ (d.quantity * d.price) * 100 > cash * config.maxRiskPct THEN FALSE
  ELSE IF d.symbol # "" /\ d.symbol \notin config.symbols THEN FALSE
  ELSE TRUE

\* The timer callback: executeDecisionCycle runs to its first await. The
\* three snapshot fetches (lines 134-140) catch their own failures and
\* change nothing, so the cycle is next seen awaiting makeDecision.
Tick(a) ==
  /\ ticksLeft > 0
  /\ LiveTimers(a) # {}
  /\ NumCycles(a) < MaxCycles
  /\ ticksLeft' = ticksLeft - 1
  /\ cycles' = cycles (+) SetToBag({Cycle(a, "decide", Live)})
  /\ UNCHANGED <<activeLoops, agentStates, timers, startCalls, startsLeft,
                 consecFails, overlapped>>
  /\ UNCHANGED <<restops, batch, mcpVars, fetching, apiVars>>

\* The three snapshot fetches of a cycle, in the order of lines 134-140
Fetches == <<"market", "portfolio", "memory">>
FetchNames == {"market", "portfolio", "memory"}
\* A cycle suspended in the backend call of one of its fetches: how often
\* it called the backend for each, and where each snapshot came from
\* ("backend", the "fallback" of the fetcher, or "none" yet). pc "asked": the
\* decision request was built from the snapshots and sent.
Fetch(a, pc, attempts, data) ==
  [agent |-> a, pc |-> pc, attempts |-> attempts, data |-> data]
InFlightFetches(a) ==
  {f \in BagToSet(fetching) : f.agent = a /\ f.pc \in FetchNames}
NumFetches(a) ==
  LET RECURSIVE Sum(_)
      Sum(T) == IF T = {} THEN 0
                ELSE LET f == CHOOSE x \in T : TRUE
                     IN CopiesIn(f, fetching) + Sum(T \ {f})
  IN Sum(InFlightFetches(a))

\* The timer callback, fetch by fetch: executeDecisionCycle runs to the
\* backend call of gatherMarketData. Tick is this step and the three
\* fetch steps that follow it taken as one.
TickFetch(a) ==
  /\ ticksLeft > 0
  /\ LiveTimers(a) # {}
  /\ NumCycles(a) + NumFetches(a) < MaxCycles
  /\ ticksLeft' = ticksLeft - 1
  /\ fetching' = fetching (+) SetToBag({
         Fetch(a, "market", [k \in FetchNames |-> IF k = "market" THEN 1 ELSE 0],
               [k \in FetchNames |-> "none"])})
  /\ UNCHANGED <<activeLoops, agentStates, timers, startCalls, cycles, startsLeft,
                 consecFails, overlapped, restops, batch, mcpVars, apiVars>>

\* A fetcher returned its snapshot, taken from `source`: the cycle goes on to
\* the backend call of the next fetcher or, after the last, builds the
\* decision request and awaits makeDecision
Fetched(a, f, source) ==
  LET data == [f.data EXCEPT ![f.pc] = source]
  IN /\ IF f.pc = "memory"
        THEN /\ fetching' = Replace(fetching, f, Fetch(a, "asked", f.attempts, data))
             /\ cycles' = cycles (+) SetToBag({Cycle(a, "decide", Live)})
        ELSE LET next == IF f.pc = "market" THEN "portfolio" ELSE "memory"
             IN /\ fetching' = Replace(fetching, f,
                                  Fetch(a, next, [f.attempts EXCEPT ![next] = @ + 1], data))
                /\ cycles' = cycles
     /\ UNCHANGED <<activeLoops, agentStates, timers, startCalls, startsLeft, ticksLeft,
                    consecFails, overlapped, restops, batch, mcpVars, apiVars>>

\* A fetch that lets the failure of its backend call leave the fetcher: the
\* catch of line 179 gets it
FetchFailureThrown(a) ==
  \E f \in InFlightFetches(a) :
    /\ fetching' = Remove(fetching, f)
    /\ consecFails' = [consecFails EXCEPT ![a] = @ + 1]
    /\ agentStates' = [agentStates EXCEPT ![a].status = "error"]
    /\ cycles' = cycles (+) SetToBag({Cycle(a, "he_wait", Live)})
    /\ UNCHANGED <<activeLoops, timers, startCalls, startsLeft, ticksLeft,
                   overlapped, restops, batch, mcpVars, apiVars>>

\* The backend call of a fetcher returned data
FetchReturns(a) == \E f \in InFlightFetches(a) : Fetched(a, f, "backend")

\* The backend call of a fetcher threw, or returned no data: the fetcher
\* catches the failure and returns its mock or default snapshot
FetchFails(a) == \E f \in InFlightFetches(a) : Fetched(a, f, "fallback")

\* makeDecision returned: validateDecision, then executeDecision to its await
\* of the backend, or updateMemory(.., 'rejected') to its await
DecisionReturns(a) ==
  \E c \in InFlightCycles(a), d \in Decisions :
    /\ c.pc = "decide"
    /\ cycles' = Replace(cycles, c,
                   CycleOf(a, IF ValidateDecision(d, PortfolioCash, AgentConfig)
                              THEN "execute" ELSE "mem_rej", Live, d))
    /\ UNCHANGED <<activeLoops, agentStates, timers, startCalls, startsLeft,
                   ticksLeft, consecFails, overlapped>>
    /\ UNCHANGED <<restops, batch, mcpVars, fetching, apiVars>>

\* executeDecision returned: updateMemory(.., 'executed') to its await
ExecuteReturns(a) ==
  \E c \in InFlightCycles(a) :
    /\ c.pc = "execute"
    /\ cycles' = Replace(cycles, c, CycleOf(a, "mem_exec", Live, c.decision))
    /\ UNCHANGED <<activeLoops, agentStates, timers, startCalls, startsLeft,
                   ticksLeft, consecFails, overlapped>>
    /\ UNCHANGED <<restops, batch, mcpVars, fetching, apiVars>>

\* updatePerformance that also writes status 'active'
UpdatePerformanceActivates(a, result) ==
  IF ~HasAgent(a) THEN agentStates
  ELSE [agentStates EXCEPT
          ![a].status = "active",
          ![a].totalDecisions = @ + 1,
          ![a].successfulDecisions = IF result = "success" THEN @ + 1 ELSE @]

\* updatePerformance that counts a success without counting the decision
UpdatePerformanceSuccessOnly(a, result) ==
  IF ~HasAgent(a) THEN agentStates
  ELSE IF result = "success"
  THEN [agentStates EXCEPT ![a].successfulDecisions = @ + 1]
  ELSE [agentStates EXCEPT ![a].totalDecisions = @ + 1]

\* updatePerformance that counts executed decisions only
UpdatePerformanceOfExecuted(a, result) ==
  IF ~HasAgent(a) \/ result # "success" THEN agentStates
  ELSE [agentStates EXCEPT
          ![a].totalDecisions = @ + 1,
          ![a].successfulDecisions = @ + 1]

\* updatePerformance up to its await of the backend
UpdatePerformance(a, result) ==
  IF ~HasAgent(a) THEN agentStates
  ELSE [agentStates EXCEPT
          ![a].totalDecisions = @ + 1,
          ![a].successfulDecisions = IF result = "success" THEN @ + 1 ELSE @]

\* updateMemory returned: updatePerformance. Its await of the backend catches
\* a failure, and processLearning does nothing: the cycle is over.
MemoryReturns(a) ==
  \E c \in InFlightCycles(a) :
    /\ c.pc \in {"mem_exec", "mem_rej"}
    /\ agentStates' = UpdatePerformance(a, IF c.pc = "mem_exec" THEN "success"
                                           ELSE "validation_failed")
    /\ cycles' = Remove(cycles, c)
    /\ consecFails' = [consecFails EXCEPT ![a] = 0]
    /\ UNCHANGED <<activeLoops, timers, startCalls, startsLeft, ticksLeft, overlapped>>
    /\ UNCHANGED <<restops, batch, mcpVars, fetching, apiVars>>

\* A step of the cycle threw (makeDecision, executeDecision or updateMemory):
\* the catch of line 179 calls handleDecisionError, which runs to its await
\* of updateAgentStatus, or returns at once for an agent it does not know
CycleThrows(a) ==
  \E c \in InFlightCycles(a) :
    /\ c.pc \in {"decide", "execute", "mem_exec", "mem_rej"}
    /\ consecFails' = [consecFails EXCEPT ![a] = @ + 1]
    /\ IF HasAgent(a)
       THEN /\ agentStates' = [agentStates EXCEPT ![a].status = "error"]
            /\ cycles' = Replace(cycles, c, Cycle(a, "he_wait", Live))
       ELSE /\ agentStates' = agentStates
            /\ cycles' = Remove(cycles, c)
    /\ UNCHANGED <<activeLoops, timers, startCalls, startsLeft, ticksLeft, overlapped>>
    /\ UNCHANGED <<restops, batch, mcpVars, fetching, apiVars>>

\* handleDecisionError after its await: errorCount > 10 stops the agent
\* (stopAgent, whose await changes nothing in memory); the cycle ends
ErrorChecked(a) ==
  \E c \in InFlightCycles(a) :
    /\ c.pc = "he_wait"
    /\ LET errorCount == IF c.frozenErr = Live THEN ErrorCount(a) ELSE c.frozenErr
       IN IF errorCount > ErrorThreshold
          THEN HaltAgent(a, "stopped", "error")
          ELSE UNCHANGED <<activeLoops, agentStates, timers>>
    /\ cycles' = Remove(cycles, c)
    /\ UNCHANGED <<startCalls, startsLeft, ticksLeft, consecFails, overlapped>>
    /\ UNCHANGED <<restops, batch, mcpVars, fetching, apiVars>>

\* The lists of agents the backend returns to startAllAgents, each agent
\* 'active' or auto_start
AgentLists == {<<"a1", "a2">>, <<"a2", "a1">>}
Range(seq) == {seq[i] : i \in DOMAIN seq}

\* startAllAgents: the backend returned the list; startAgent is called for
\* its first agent and runs to its await of loadAgent
StartAllAgents ==
  \E agents \in AgentLists :
    /\ batch.op = "none" /\ batch.left > 0
    /\ batch' = [op |-> "start", rest |-> Tail(agents), listed |-> Range(agents),
                 processed |-> {Head(agents)}, left |-> batch.left - 1]
    /\ startCalls' = startCalls (+) SetToBag({StartCallOf(Head(agents), "load", "all")})
    /\ overlapped' = [overlapped EXCEPT ![Head(agents)] = @ \/ InFlightStarts(Head(agents)) # {}]
    /\ UNCHANGED <<activeLoops, agentStates, timers, cycles, startsLeft, ticksLeft,
                   consecFails, restops>>
    /\ UNCHANGED <<mcpVars, fetching, apiVars>>

\* getActiveAgents: the keys of activeLoops, in one of the orders the Map
\* may hold them in
ActiveAgents ==
  LET S == {a \in Agents : activeLoops[a] # NoTimer}
  IN {seq \in UNION {[1..n -> S] : n \in 0..Cardinality(S)} :
        Len(seq) = Cardinality(S) /\ Range(seq) = S}

\* stopAllAgents: getActiveAgents, then stopAgent for the first agent, which
\* runs to its await of updateAgentStatus
StopAllAgents ==
  /\ batch.op = "none" /\ batch.left > 0
  /\ \E agents \in ActiveAgents :
       IF agents = <<>>
       THEN /\ batch' = Idle(batch.left - 1)
            /\ UNCHANGED <<activeLoops, agentStates, timers>>
       ELSE /\ batch' = [op |-> "stop", rest |-> Tail(agents), listed |-> Range(agents),
                         processed |-> {Head(agents)}, left |-> batch.left - 1]
            /\ HaltAgent(Head(agents), "stopped", "stop")
  /\ UNCHANGED <<startCalls, cycles, startsLeft, ticksLeft, consecFails, overlapped,
                 restops>>
  /\ UNCHANGED <<mcpVars, fetching, apiVars>>

\* stopAllAgents: stopAgent returned; the loop calls it for the next agent of
\* its list, or ends
StopAllNext ==
  /\ batch.op = "stop"
  /\ IF batch.rest = <<>>
     THEN /\ batch' = [batch EXCEPT !.op = "none"]
          /\ UNCHANGED <<activeLoops, agentStates, timers>>
     ELSE /\ batch' = [batch EXCEPT !.rest = Tail(@), !.processed = @ \cup {Head(batch.rest)}]
          /\ HaltAgent(Head(batch.rest), "stopped", "stop")
  /\ UNCHANGED <<startCalls, cycles, startsLeft, ticksLeft, consecFails, overlapped,
                 restops>>
  /\ UNCHANGED <<mcpVars, fetching, apiVars>>

InitLoopOf(starts, ticks, batches) ==
  /\ activeLoops = [a \in Agents |-> NoTimer]
  /\ agentStates = [a \in Agents |-> NoAgent]
  /\ timers = <<>>
  /\ startCalls = EmptyBag
  /\ cycles = EmptyBag
  /\ startsLeft = starts
  /\ ticksLeft = ticks
  /\ consecFails = [a \in Agents |-> 0]
  /\ overlapped = [a \in Agents |-> FALSE]
  /\ restops = [a \in Agents |-> 0]
  /\ batch = Idle(batches)
  /\ fetching = EmptyBag

(***************************************************************************)
(* MCPIntegrationService                                                   *)
(***************************************************************************)

\* initializeDefaultTools: the registry
ToolIds == {"trading.place_order", "analysis.market_sentiment", "system.create_todo"}
\* a tool id that is not in the registry
UnknownTool == "unknown.tool"
\* The tool ids callers pass to callTool
CalledTools == {"trading.place_order", "system.create_todo", UnknownTool}

\* A rational number n/d, d > 0, in lowest terms: usage.successRate and
\* usage.avgResponseTime are quotients of small integers.
RECURSIVE Gcd(_, _)
Gcd(x, y) == IF y = 0 THEN x ELSE Gcd(y, x % y)
Rat(n, d) ==
  LET g == Gcd(IF n < 0 THEN -n ELSE n, d)
  IN IF n = 0 THEN [n |-> 0, d |-> 1] ELSE [n |-> n \div g, d |-> d \div g]
\* (k * r + i) / m for integers k, i, m > 0
RatAffine(k, r, i, m) == Rat(k * r.n + i * r.d, r.d * m)

NewUsage == [totalCalls |-> 0, lastUsed |-> 0,
             successRate |-> Rat(0, 1), avgResponseTime |-> Rat(0, 1)]

\* A value of a parameters object: JavaScript's typeof, and the string or
\* the number it is
Undefined == [type |-> "undefined", str |-> "", num |-> 0]
Str(x) == [type |-> "string", str |-> x, num |-> 0]
Num(x) == [type |-> "number", str |-> "", num |-> x]

\* The parameter names of the registry's schemas
ParameterNames == {"symbol", "side", "amount", "type", "price", "timeframe",
                   "title", "description", "priority"}

\* An MCPParameter: validation.enum and validation.min are optional
Parameter(name, type, required, enum, min) ==
  [name |-> name, type |-> type, required |-> required,
   hasEnum |-> enum # {}, enum |-> enum, hasMin |-> min # {}, min |-> min]

\* initializeDefaultTools: the parameters of each tool
ToolParameters(t) ==
  CASE t = "trading.place_order" ->
         { Parameter("symbol", "string", TRUE, {}, {}),
           Parameter("side", "string", TRUE, {"buy", "sell"}, {}),
           Parameter("amount", "number", TRUE, {}, {0}),
           Parameter("type", "string", FALSE, {"market", "limit"}, {}),
           Parameter("price", "number", FALSE, {}, {}) }
    [] t = "analysis.market_sentiment" ->
         { Parameter("symbol", "string", TRUE, {}, {}),
           Parameter("timeframe", "string", FALSE, {"1h", "4h", "1d", "1w"}, {}) }
    [] OTHER ->
         { Parameter("title", "string", TRUE, {}, {}),
           Parameter("description", "string", FALSE, {}, {}),
           Parameter("priority", "string", FALSE, {"low", "medium", "high"}, {}) }

\* A parameters object: the names it gives a value, the others undefined
Object(given) ==
  [n \in ParameterNames |-> IF n \in DOMAIN given THEN given[n] ELSE Undefined]

\* The parameters objects callers pass with a tool id: for each registered
\* tool one its schema accepts, for an unregistered id the empty object
ParametersFor(t) ==
  CASE t = "trading.place_order" ->
         Object([symbol |-> Str("BTC/USD"), side |-> Str("buy"), amount |-> Num(1)])
    [] t = "analysis.market_sentiment" -> Object([symbol |-> Str("BTC/USD")])
    [] t = "system.create_todo" -> Object([title |-> Str("rebalance")])
    [] OTHER -> Object([symbol |-> Undefined])

\* The parameters objects callers pass to trading.place_order: one the
\* schema accepts, one without the required symbol, one whose amount is a
\* string, one whose amount is below validation.min, one whose side is
\* outside validation.enum
OrderParameters ==
  { ParametersFor("trading.place_order"),
    Object([side |-> Str("buy"), amount |-> Num(1)]),
    Object([symbol |-> Str("BTC/USD"), side |-> Str("buy"), amount |-> Str("1")]),
    Object([symbol |-> Str("BTC/USD"), side |-> Str("buy"), amount |-> Num(-1)]),
    Object([symbol |-> Str("BTC/USD"), side |-> Str("hold"), amount |-> Num(1)]) }

\* What an MCPParameter asks of a parameters object: a required name has
\* a value, and a value has the type, is in validation.enum and is not
\* below validation.min
SatisfiesParameter(q, params) ==
  LET v == params[q.name]
  IN IF v = Undefined THEN ~q.required
     ELSE /\ v.type = q.type
          /\ q.hasEnum => v.str \in q.enum
          /\ q.hasMin => \A m \in q.min : v.num >= m
SatisfiesSchema(schema, params) == \A q \in schema : SatisfiesParameter(q, params)

DefaultTools ==
  [t \in ToolIds |->
     [category |-> CASE t = "trading.place_order" -> "trading"
                     [] t = "analysis.market_sentiment" -> "analysis"
                     [] OTHER -> "system",
      permissions |-> CASE t = "trading.place_order" -> {"trading.execute"}
                        [] t = "analysis.market_sentiment" -> {"analysis.read"}
                        [] OTHER -> {"system.write"},
      parameters |-> ToolParameters(t),
      enabled |-> TRUE,
      usage |-> NewUsage]]

\* agentPermissions.get(agentId) is undefined
NoPermissions ==
  [registered |-> FALSE, allowedTools |-> {}, allowedCategories |-> {},
   blockedTools |-> {}, maxCallsPerMinute |-> 0]

\* getToolsForPermissions
GetToolsForPermissions(permissions) ==
  {t \in DOMAIN tools : tools[t].permissions \cap permissions # {}}

\* createAgentPermissions
CreateAgentPermissions ==
  [registered |-> TRUE,
   allowedTools |-> GetToolsForPermissions(
                      {"trading.read", "analysis.read", "system.write", "data.write"}),
   allowedCategories |-> {"trading", "analysis", "system", "data"},
   blockedTools |-> {},
   maxCallsPerMinute |-> DefaultMaxCallsPerMinute]

\* session.endTime is undefined
NoTime == -1
\* getActiveSessionId: 'no-session'
NoSession == <<"no-session", 0>>

\* createSession: the id is `session_${agentId}_${Date.now()}`
CreateSession(a) ==
  [id |-> <<a, now>>, agentId |-> a, startTime |-> now, endTime |-> NoTime,
   totalCalls |-> 0, successfulCalls |-> 0, failedCalls |-> 0, status |-> "active"]

\* sessions.set(session.id, session): a Map keeps the place of a key it has
SessionsSet(ss, s) ==
  IF \E i \in DOMAIN ss : ss[i].id = s.id
  THEN [i \in DOMAIN ss |-> IF ss[i].id = s.id THEN s ELSE ss[i]]
  ELSE Append(ss, s)

ActiveSessions(a) ==
  {i \in DOMAIN sessions : sessions[i].agentId = a /\ sessions[i].status = "active"}

\* getActiveSessionId
GetActiveSessionId(a) ==
  IF ActiveSessions(a) # {}
  THEN sessions[CHOOSE i \in ActiveSessions(a) : \A j \in ActiveSessions(a) : i <= j].id
  ELSE NoSession

\* What loadPersistedData finds in localStorage: the permission set and the
\* session of agent a1, registered with a narrower grant than
\* createAgentPermissions gives (one tool by id, three categories, one tool
\* blocked, one call per minute). Nothing is stored for a2.
PersistedData ==
  [agentPermissions |->
     [a \in Agents |->
        IF a = "a1"
        THEN [registered |-> TRUE,
              allowedTools |-> {"analysis.market_sentiment"},
              allowedCategories |-> {"analysis", "trading", "system"},
              blockedTools |-> {"system.create_todo"},
              maxCallsPerMinute |-> 1]
        ELSE NoPermissions],
   sessions |->
     << [id |-> <<"a1", 0>>, agentId |-> "a1", startTime |-> 0, endTime |-> NoTime,
         totalCalls |-> 0, successfulCalls |-> 0, failedCalls |-> 0,
         status |-> "active"] >>]

\* localStorage with the permission sets and without the 'sessions' key
\* (loadPersistedData reads each key only if it is there)
PersistedWithoutSessions == [PersistedData EXCEPT !.sessions = <<>>]

\* getAvailableTools filtering by the allow-list of ids only
AuthorizedById(p, t) ==
  /\ t \in DOMAIN tools
  /\ t \in p.allowedTools
  /\ t \notin p.blockedTools

\* The authorization rule of getAvailableTools (lines 284-287)
Authorized(p, t) ==
  /\ t \in DOMAIN tools
  /\ (t \in p.allowedTools \/ tools[t].category \in p.allowedCategories)
  /\ t \notin p.blockedTools

\* The order of the registry's Map: the order initializeDefaultTools
\* registers the tools in
ToolOrder == <<"trading.place_order", "analysis.market_sentiment", "system.create_todo">>

\* No getAvailableTools call was made yet; `left` more may be made
NoQuery(left) == [agent |-> "none", result |-> <<>>, left |-> left]

\* No activateForAllAgents call is in flight and none has emitted its event
NoEvent == [totalAgents |-> -1, successCount |-> -1, results |-> <<>>]
NoResult == [agentId |-> "none", success |-> FALSE]
NoActivation(left) ==
  [running |-> FALSE, agents |-> <<>>, rest |-> <<>>, pending |-> NoResult,
   results |-> <<>>, event |-> NoEvent, left |-> left]

\* getAvailableTools: the tools of the registry, in its order, that pass the
\* filter; [] for an agent without permission set
GetAvailableTools(a) ==
  IF ~agentPermissions[a].registered THEN <<>>
  ELSE SelectSeq(ToolOrder,
                 LAMBDA t : tools[t].enabled /\ Authorized(agentPermissions[a], t))

\* A caller asks for the tools of an agent
QueryTools(a) ==
  /\ queried.left > 0
  /\ queried' = [agent |-> a, result |-> GetAvailableTools(a), left |-> queried.left - 1]
  /\ UNCHANGED <<loopVars, mcpVars, activateAll>>

\* The body of activateForAgent: for an agent the persistence service
\* knows, the permission set and the session; else nothing
Activated(a, found) ==
  IF found
  THEN /\ agentPermissions' = [agentPermissions EXCEPT ![a] = CreateAgentPermissions]
       /\ sessions' = SessionsSet(sessions, CreateSession(a))
  ELSE UNCHANGED <<agentPermissions, sessions>>

\* activateForAgent. It has no await: one step. persistData writes
\* localStorage, which is read only at construction.
ActivateForAgent(a) ==
  \E found \in BOOLEAN :
    /\ activationsLeft > 0
    /\ activationsLeft' = activationsLeft - 1
    /\ Activated(a, found)
    /\ UNCHANGED <<now, callLogs, tools, rateLimits, toolCalls, callsLeft,
                   returned, windowCalls>>
    /\ UNCHANGED <<loopVars, apiVars>>

\* The lists getAllAgents returns to activateForAllAgents ([] also when
\* the persistence service is missing)
KnownAgentLists == AgentLists \cup {<<>>, <<"a1">>}

\* The event 'mcpActivatedForAll' (lines 169-176)
ActivatedForAll(agents, results) ==
  [totalAgents |-> Len(agents),
   successCount |-> Cardinality({i \in DOMAIN results : results[i].success}),
   results |-> results]

\* activateForAllAgents: getAllAgents, then activateForAgent for the first
\* agent, whose result the loop awaits; with no agent, the event at once
ActivateForAllAgents ==
  \E agents \in KnownAgentLists, found \in BOOLEAN :
    /\ ~activateAll.running /\ activateAll.left > 0
    /\ IF agents = <<>>
       THEN /\ found
            /\ activateAll' = [NoActivation(activateAll.left - 1) EXCEPT
                                 !.event = ActivatedForAll(<<>>, <<>>)]
            /\ UNCHANGED <<agentPermissions, sessions>>
       ELSE /\ Activated(Head(agents), found)
            /\ activateAll' = [running |-> TRUE, agents |-> agents, rest |-> Tail(agents),
                               pending |-> [agentId |-> Head(agents), success |-> found],
                               results |-> <<>>, event |-> activateAll.event,
                               left |-> activateAll.left - 1]
    /\ UNCHANGED <<now, callLogs, tools, rateLimits, toolCalls, callsLeft,
                   activationsLeft, returned, windowCalls>>
    /\ UNCHANGED <<loopVars, queried>>

\* activateForAllAgents that gives up at the first activation that fails
ActivateAllStopsAtFailure ==
  /\ activateAll.running
  /\ LET results == Append(activateAll.results, activateAll.pending)
     IN IF activateAll.rest = <<>> \/ ~activateAll.pending.success
        THEN /\ activateAll' = [activateAll EXCEPT
                                  !.running = FALSE, !.pending = NoResult,
                                  !.results = results,
                                  !.event = ActivatedForAll(activateAll.agents, results)]
             /\ UNCHANGED <<agentPermissions, sessions>>
        ELSE \E found \in BOOLEAN :
               /\ Activated(Head(activateAll.rest), found)
               /\ activateAll' = [activateAll EXCEPT
                                    !.rest = Tail(@), !.results = results,
                                    !.pending = [agentId |-> Head(activateAll.rest),
                                                 success |-> found]]
  /\ UNCHANGED <<now, callLogs, tools, rateLimits, toolCalls, callsLeft,
                 activationsLeft, returned, windowCalls>>
  /\ UNCHANGED <<loopVars, queried>>

\* activateForAllAgents: activateForAgent returned; its result is pushed,
\* and the loop calls activateForAgent for the next agent or, after the
\* last one, counts the successes and emits the event
ActivateAllNext ==
  /\ activateAll.running
  /\ LET results == Append(activateAll.results, activateAll.pending)
     IN IF activateAll.rest = <<>>
        THEN /\ activateAll' = [activateAll EXCEPT
                                  !.running = FALSE, !.pending = NoResult,
                                  !.results = results,
                                  !.event = ActivatedForAll(activateAll.agents, results)]
             /\ UNCHANGED <<agentPermissions, sessions>>
        ELSE \E found \in BOOLEAN :
               /\ Activated(Head(activateAll.rest), found)
               /\ activateAll' = [activateAll EXCEPT
                                    !.rest = Tail(@), !.results = results,
                                    !.pending = [agentId |-> Head(activateAll.rest),
                                                 success |-> found]]
  /\ UNCHANGED <<now, callLogs, tools, rateLimits, toolCalls, callsLeft,
                 activationsLeft, returned, windowCalls>>
  /\ UNCHANGED <<loopVars, queried>>

\* deactivateForAgent that closes the sessions and keeps the permission set
DeactivateKeepsPermissions(a) ==
  /\ sessions' = [i \in DOMAIN sessions |->
                    IF sessions[i].agentId = a
                    THEN [sessions[i] EXCEPT !.status = "completed", !.endTime = now]
                    ELSE sessions[i]]
  /\ rateLimits' = {k \in rateLimits : k[1] # a}
  /\ UNCHANGED <<now, agentPermissions, callLogs, tools, toolCalls, callsLeft,
                 activationsLeft, returned, windowCalls>>
  /\ UNCHANGED <<loopVars, apiVars>>

\* deactivateForAgent (the 'agentDeleted' listener)
DeactivateForAgent(a) ==
  /\ sessions' = [i \in DOMAIN sessions |->
                    IF sessions[i].agentId = a
                    THEN [sessions[i] EXCEPT !.status = "completed", !.endTime = now]
                    ELSE sessions[i]]
  /\ agentPermissions' = [agentPermissions EXCEPT ![a] = NoPermissions]
  /\ rateLimits' = {k \in rateLimits : k[1] # a}
  /\ UNCHANGED <<now, callLogs, tools, toolCalls, callsLeft, activationsLeft,
                 returned, windowCalls>>
  /\ UNCHANGED <<loopVars, apiVars>>

\* logCall without the slice
LogCallUnbounded(logs, callLog) == Append(logs, callLog)

\* logCall that keeps the log in the order of the calls' start times
LogCallByIssueTime(logs, callLog) ==
  LET k == Cardinality({i \in DOMAIN logs : logs[i].timestamp <= callLog.timestamp})
  IN SubSeq(logs, 1, k) \o <<callLog>> \o SubSeq(logs, k + 1, Len(logs))

\* logCall
LogCall(logs, callLog) ==
  LET l == Append(logs, callLog)
  IN IF Len(l) > MaxCallLogs THEN SubSeq(l, Len(l) - MaxCallLogs + 1, Len(l)) ELSE l

\* updateToolUsage called on the success branch only
UpdateToolUsageOnSuccess(t, success, duration) ==
  IF t \in DOMAIN tools /\ success
  THEN [tools EXCEPT ![t].usage.totalCalls = @ + 1, ![t].usage.lastUsed = now]
  ELSE tools

\* updateToolUsage
UpdateToolUsage(t, success, duration) ==
  IF t \in DOMAIN tools
  THEN LET u == tools[t].usage
           totalCalls == u.totalCalls + 1
       IN [tools EXCEPT ![t].usage =
             [totalCalls |-> totalCalls,
              lastUsed |-> now,
              \* successCount = totalCalls * successRate + (success ? 1 : 0)
              successRate |-> RatAffine(totalCalls, u.successRate,
                                        IF success THEN 1 ELSE 0, totalCalls),
              \* totalTime = avgResponseTime * (totalCalls - 1) + duration
              avgResponseTime |-> RatAffine(totalCalls - 1, u.avgResponseTime,
                                            duration, totalCalls)]]
  ELSE tools

\* The call log entry callTool builds on either branch (lines 232-246, 254-269)
CallLog(a, t, p, success, error, startTime) ==
  [agentId |-> a, toolId |-> t, parameters |-> p, success |-> success, error |-> error,
   timestamp |-> startTime, duration |-> now - startTime,
   sessionId |-> GetActiveSessionId(a)]

\* The end of callTool on either branch: logCall, updateToolUsage, then
\* return or rethrow
FinishCall(a, t, p, success, error, startTime) ==
  /\ callLogs' = LogCall(callLogs, CallLog(a, t, p, success, error, startTime))
  /\ tools' = UpdateToolUsage(t, success, now - startTime)
  /\ returned' = [returned EXCEPT ![t] = @ + 1]

\* A call suspended in executeTool. `authorized` is history: what the rule
\* of getAvailableTools said of the call when it was dispatched.
ToolCall(a, t, p) ==
  [agentId |-> a, toolId |-> t, parameters |-> p, startTime |-> now,
   authorized |-> Authorized(agentPermissions[a], t)]

\* callTool without its first check
AlwaysRegistered(a) == TRUE
\* callTool: `if (!permissions)` is false
HasPermissions(a) == agentPermissions[a].registered

\* callTool reading only `!tool` of its second check
ToolRegistered(t) == t \in DOMAIN tools
\* callTool: `if (!tool || !tool.enabled)` is false
ToolEnabled(t) == t \in DOMAIN tools /\ tools[t].enabled

\* callTool, to its await of executeTool or, when a check throws, to its end
CallTool(a, t, p) ==
  /\ callsLeft > 0
  /\ callsLeft' = callsLeft - 1
  /\ IF ~HasPermissions(a)
     THEN /\ FinishCall(a, t, p, FALSE, "Agent not registered for MCP", now)
          /\ UNCHANGED <<toolCalls, windowCalls>>
     ELSE IF ~ToolEnabled(t)
     THEN /\ FinishCall(a, t, p, FALSE, "Tool not found or disabled", now)
          /\ UNCHANGED <<toolCalls, windowCalls>>
     ELSE /\ toolCalls' = toolCalls (+) SetToBag({ToolCall(a, t, p)})
          /\ windowCalls' = [windowCalls EXCEPT ![a] = @ + 1]
          /\ UNCHANGED <<callLogs, tools, returned>>
  /\ UNCHANGED <<now, agentPermissions, sessions, rateLimits, activationsLeft>>
  /\ UNCHANGED <<loopVars, apiVars>>

\* executeTool returned its response
ToolReturns ==
  \E c \in BagToSet(toolCalls) :
    /\ toolCalls' = Remove(toolCalls, c)
    /\ FinishCall(c.agentId, c.toolId, c.parameters, TRUE, "", c.startTime)
    /\ UNCHANGED <<now, agentPermissions, sessions, rateLimits, callsLeft,
                   activationsLeft, windowCalls>>
    /\ UNCHANGED <<loopVars, apiVars>>

\* executeTool threw: the trading engine or the todo service failed
ToolThrows ==
  \E c \in BagToSet(toolCalls) :
    /\ toolCalls' = Remove(toolCalls, c)
    /\ FinishCall(c.agentId, c.toolId, c.parameters, FALSE, "tool failed", c.startTime)
    /\ UNCHANGED <<now, agentPermissions, sessions, rateLimits, callsLeft,
                   activationsLeft, windowCalls>>
    /\ UNCHANGED <<loopVars, apiVars>>

\* A holder of the MCPTool objects getAllTools returns (they are the
\* registry's own objects) switches a tool off or on
SetEnabled(t, e) ==
  /\ tools[t].enabled # e
  /\ tools' = [tools EXCEPT ![t].enabled = e]
  /\ UNCHANGED <<now, agentPermissions, sessions, callLogs, rateLimits, toolCalls,
                 callsLeft, activationsLeft, returned, windowCalls>>
  /\ UNCHANGED <<loopVars, apiVars>>

\* One minute of the rate limiter, in instants of the clock
WindowLength == 1

\* Time passes. A new one-minute window starts every WindowLength instants.
AdvanceClock ==
  /\ now < MaxTime
  /\ now' = now + 1
  /\ windowCalls' = IF (now + 1) % WindowLength = 0
                    THEN [a \in Agents |-> 0] ELSE windowCalls
  /\ UNCHANGED <<agentPermissions, sessions, callLogs, tools, rateLimits,
                 toolCalls, callsLeft, activationsLeft, returned>>
  /\ UNCHANGED <<loopVars, apiVars>>

\* The service once initializeAsync has run: initializeDefaultTools,
\* loadPersistedData
InitMcpOf(data, calls, activations, queries, batches) ==
  /\ now = 0
  /\ agentPermissions = data.agentPermissions
  /\ sessions = data.sessions
  /\ callLogs = <<>>
  /\ tools = DefaultTools
  /\ rateLimits = {}
  /\ toolCalls = EmptyBag
  /\ callsLeft = calls
  /\ activationsLeft = activations
  /\ returned = [t \in CalledTools |-> 0]
  /\ windowCalls = [a \in Agents |-> 0]
  /\ queried = NoQuery(queries)
  /\ activateAll = NoActivation(batches)

InitMcpFrom(data, calls, activations) == InitMcpOf(data, calls, activations, 0, 0)

InitMcpWith(calls, activations) == InitMcpFrom(PersistedData, calls, activations)

InitLoopWith(starts, ticks) == InitLoopOf(starts, ticks, 0)
InitLoop == InitLoopWith(MaxStarts, MaxTicks)
InitMcp == InitMcpWith(MaxCalls, MaxActivations)

Init == InitLoop /\ InitMcp

NextAgent(a) ==
  \/ StartAgentCall(a)
  \/ StartLoaded(a)
  \/ StartNotFound(a)
  \/ StartArm(a)
  \/ StopAgent(a)
  \/ PauseAgent(a)
  \/ Tick(a)
  \/ DecisionReturns(a)
  \/ ExecuteReturns(a)
  \/ MemoryReturns(a)
  \/ CycleThrows(a)
  \/ ErrorChecked(a)

NextLoop == \E a \in Agents : NextAgent(a)

NextMcp ==
  \/ \E a \in Agents : ActivateForAgent(a)
  \/ \E a \in Agents : DeactivateForAgent(a)
  \/ \E a \in Agents, t \in CalledTools : CallTool(a, t, ParametersFor(t))
  \/ ToolReturns
  \/ ToolThrows
  \/ AdvanceClock

Next == NextLoop \/ NextMcp

Spec == Init /\ [][Next]_vars

\* The decision loop alone, for both agents and for the agent a1
LoopSpec == Init /\ [][NextLoop]_vars
OneAgentSpec == Init /\ [][NextAgent("a1")]_vars

\* The MCP service alone
McpSpec == Init /\ [][NextMcp]_vars

\* One start of the new agent a2 and enough ticks for ErrorThreshold + 1
\* cycles to fail in a row
InitFail == InitLoopWith(1, ErrorThreshold + 1) /\ InitMcp
NextFail == NextAgent("a2")
FailSpec == InitFail /\ [][NextFail]_vars

\* One activation of a2, which gets the permission set of
\* createAgentPermissions, and one call more than its maxCallsPerMinute, all
\* at one instant and all failing in the tool's implementation
InitRate == InitLoop /\ InitMcpWith(DefaultMaxCallsPerMinute + 1, 1)
NextRate ==
  \/ ActivateForAgent("a2")
  \/ CallTool("a2", "trading.place_order", ParametersFor("trading.place_order"))
  \/ ToolThrows
RateSpec == InitRate /\ [][NextRate]_vars

\* startAllAgents and stopAllAgents, with the steps of the startAgent calls
\* they make and the ticks of the timers those arm
InitBatch == InitLoopOf(0, 1, MaxBatches) /\ InitMcp
NextBatch ==
  \/ StartAllAgents
  \/ StopAllAgents
  \/ StopAllNext
  \/ \E a \in Agents : StartLoaded(a) \/ StartNotFound(a) \/ StartArm(a)
  \/ \E a \in Agents : Tick(a) \/ DecisionReturns(a) \/ ExecuteReturns(a)
  \/ \E a \in Agents : MemoryReturns(a) \/ CycleThrows(a) \/ ErrorChecked(a)
BatchSpec == InitBatch /\ [][NextBatch]_vars

\* Calls of trading.place_order with parameters objects of every kind, by
\* the registered agent a1 and the unregistered a2
NextParam ==
  \/ \E a \in Agents, p \in OrderParameters : CallTool(a, "trading.place_order", p)
  \/ ToolReturns
  \/ ToolThrows
ParamSpec == Init /\ [][NextParam]_vars

\* The checks of callTool: agents that gain and lose their permission set,
\* a tool that is switched off and on, and storage with and without sessions
InitGate ==
  /\ InitLoop
  /\ \E data \in {PersistedData, PersistedWithoutSessions} :
       InitMcpFrom(data, MaxCalls, MaxActivations)
NextGate ==
  \/ \E a \in Agents : ActivateForAgent(a)
  \/ \E a \in Agents : DeactivateForAgent(a)
  \/ \E a \in Agents, t \in CalledTools : CallTool(a, t, ParametersFor(t))
  \/ ToolReturns
  \/ ToolThrows
  \/ \E e \in BOOLEAN : SetEnabled("trading.place_order", e)
GateSpec == InitGate /\ [][NextGate]_vars

\* The log after n calls of the unregistered agent a2, one at each instant
\* from 0 on: each threw 'Agent not registered for MCP' and was logged
FilledLog(n) ==
  [i \in 1..n |->
     [agentId |-> "a2", toolId |-> UnknownTool, parameters |-> ParametersFor(UnknownTool),
      success |-> FALSE, error |-> "Agent not registered for MCP",
      timestamp |-> i - 1, duration |-> 0, sessionId |-> NoSession]]

\* The service one record short of the capacity of its log, and the calls
\* that fill it and go beyond
MaxLogCalls == 3
InitLog ==
  /\ InitLoop
  /\ now = MaxCallLogs - 1
  /\ agentPermissions = PersistedData.agentPermissions
  /\ sessions = PersistedData.sessions
  /\ callLogs = FilledLog(MaxCallLogs - 1)
  /\ tools = DefaultTools
  /\ rateLimits = {}
  /\ toolCalls = EmptyBag
  /\ callsLeft = MaxLogCalls
  /\ activationsLeft = 0
  /\ returned = [t \in CalledTools |-> IF t = UnknownTool THEN MaxCallLogs - 1 ELSE 0]
  /\ windowCalls = [a \in Agents |-> 0]
  /\ queried = NoQuery(0)
  /\ activateAll = NoActivation(0)
NextLog ==
  \/ \E a \in Agents, t \in CalledTools : CallTool(a, t, ParametersFor(t))
  \/ ToolReturns
  \/ ToolThrows
LogSpec == InitLog /\ [][NextLog]_vars

\* The decision loop of a1 with the progress its environment guarantees: the
\* interval timer fires, and the backend answers executeDecision,
\* updateMemory, updatePerformance and updateAgentStatus. Nothing makes the
\* decision provider answer, and executeDecisionCycle sets no timer of its
\* own on any of its awaits.
FairCycleSpec ==
  /\ Init
  /\ [][NextAgent("a1")]_vars
  /\ WF_vars(Tick("a1"))
  /\ WF_vars(ExecuteReturns("a1"))
  /\ WF_vars(MemoryReturns("a1"))
  /\ WF_vars(ErrorChecked("a1"))

\* The cycles of a1 fetch by fetch: one start, and ticks whose fetches
\* succeed or fail one by one
InitFetch == InitLoopWith(1, MaxTicks) /\ InitMcp
NextFetch ==
  \/ StartAgentCall("a1") \/ StartLoaded("a1") \/ StartArm("a1")
  \/ TickFetch("a1") \/ FetchReturns("a1") \/ FetchFails("a1")
  \/ DecisionReturns("a1") \/ ExecuteReturns("a1") \/ MemoryReturns("a1")
  \/ CycleThrows("a1") \/ ErrorChecked("a1")
FetchSpec == InitFetch /\ [][NextFetch]_vars

\* getAvailableTools for agents that gain and lose their permission set,
\* stored or created, and tools that are switched off and on
MaxQueries == 2
InitTools ==
  /\ InitLoop
  /\ InitMcpOf(PersistedData, 0, MaxActivations, MaxQueries, 0)
NextTools ==
  \/ \E a \in Agents : ActivateForAgent(a)
  \/ \E a \in Agents : DeactivateForAgent(a)
  \/ \E t \in ToolIds, e \in BOOLEAN : SetEnabled(t, e)
  \/ \E a \in Agents : QueryTools(a)
ToolsSpec == InitTools /\ [][NextTools]_vars

\* activateForAllAgents, among deactivations and with time passing
InitActivateAll == InitLoop /\ InitMcpOf(PersistedData, 0, 0, 0, MaxBatches)
NextActivateAll ==
  \/ ActivateForAllAgents
  \/ ActivateAllNext
  \/ \E a \in Agents : DeactivateForAgent(a)
  \/ AdvanceClock
ActivateAllSpec == InitActivateAll /\ [][NextActivateAll]_vars

(***************************************************************************)
(* Sessions                                                                *)
(***************************************************************************)

\* C1: every agent has at most one session whose status is 'active', after
\* any sequence of activateForAgent, deactivateForAgent and callTool.
OneActiveSessionPerAgent ==
  \A a \in Agents : Cardinality(ActiveSessions(a)) <= 1

(***************************************************************************)
(* Decision cycles and timers                                              *)
(***************************************************************************)

\* C2: at most one executeDecisionCycle of an agent is in flight at any time.
CyclesSequential ==
  \A a \in Agents : NumCycles(a) <= 1

\* the cycles of `a` suspended in executeDecision, which has sent the trade
Executing(a) ==
  LET S == {c \in InFlightCycles(a) : c.pc = "execute"}
      RECURSIVE Sum(_)
      Sum(T) == IF T = {} THEN 0
                ELSE LET c == CHOOSE x \in T : TRUE
                     IN CopiesIn(c, cycles) + Sum(T \ {c})
  IN Sum(S)

\* C3: while an agent's status is 'stopped', none of its cycles in flight
\* goes on to invoke executeDecision.
NoExecutionAfterStop ==
  [][\A a \in Agents :
       agentStates[a].status = "stopped" => Executing(a)' <= Executing(a)]_vars

\* C4: when the startAgent calls for an agent do not overlap one another,
\* a timer of the agent that has a successor was cancelled exactly once, at
\* most one timer of the agent is live, it is the one activeLoops records,
\* and an agent that startAgent left 'active' has exactly one.
SequentialStartsOneTimer ==
  \A a \in Agents :
    ~overlapped[a] =>
      /\ \A t \in TimersOf(a) : timers[t].cancels = IF timers[t].live THEN 0 ELSE 1
      /\ \A t1, t2 \in TimersOf(a) :
           t1 < t2 => ~timers[t1].live /\ timers[t1].cancels = 1
      /\ LiveTimers(a) \subseteq {activeLoops[a]}
      /\ agentStates[a].status = "active" => LiveTimers(a) = {activeLoops[a]}

\* C4, its case: a second startAgent, begun after the first had finished,
\* cancelled the first call's timer and armed its own.
SecondStartReplacedTimer ==
  \E a \in Agents :
    /\ ~overlapped[a]
    /\ agentStates[a].status = "active"
    /\ \E t1, t2 \in TimersOf(a) :
         /\ t1 < t2
         /\ timers[t1].by = "start" /\ timers[t1].cancels = 1 /\ ~timers[t1].live
         /\ timers[t2].live /\ activeLoops[a] = t2

\* C5: once ErrorThreshold + 1 cycles of an agent have failed in a row, its
\* status is 'error' and it has no armed timer.
ErrorAfterThresholdFailures ==
  \A a \in Agents :
    consecFails[a] >= ErrorThreshold + 1 =>
      agentStates[a].status = "error" /\ LiveTimers(a) = {}

\* C6: the step in which a cycle fails raises the agent's error counter,
\* totalDecisions - successfulDecisions, by exactly 1.
FailureCountsAsError ==
  [][\A a \in Agents :
       consecFails'[a] = consecFails[a] + 1 => ErrorCount(a)' = ErrorCount(a) + 1]_vars

(***************************************************************************)
(* The tool gateway                                                        *)
(***************************************************************************)

RECURSIVE SumOver(_, _)
SumOver(f, S) ==
  IF S = {} THEN 0
  ELSE LET x == CHOOSE y \in S : TRUE IN f[x] + SumOver(f, S \ {x})

\* callTool invocations that have returned or thrown
Finished == SumOver(returned, CalledTools)

\* C7, as amended: every finished callTool has appended one Call Record
\* (the log keeps the last MaxCallLogs), and every finished callTool that
\* named a registered tool has raised that tool's usage.totalCalls by one,
\* whichever branch it took; a call naming an unregistered id changes no
\* tool's usage.
EveryCallLoggedAndCounted ==
  /\ Len(callLogs) = IF Finished > MaxCallLogs THEN MaxCallLogs ELSE Finished
  /\ \A t \in DOMAIN tools :
       tools[t].usage.totalCalls = IF t \in CalledTools THEN returned[t] ELSE 0
  /\ \A t \in CalledTools :
       Cardinality({k \in DOMAIN callLogs : callLogs[k].toolId = t}) = returned[t]

\* usage.totalCalls of the tool a call names
TotalCallsOf(t) == IF t \in DOMAIN tools THEN tools[t].usage.totalCalls ELSE 0

\* C7, as stated: every finished callTool has raised the usage.totalCalls of
\* the tool it named by one.
EveryCallCountsForItsTool ==
  \A t \in CalledTools : TotalCallsOf(t) = returned[t]

\* C7, its case: calls of one registered tool have finished on both
\* branches, one that returned a result and one that threw.
BothBranchesFinished ==
  \E i, j \in DOMAIN callLogs :
    /\ callLogs[i].success /\ ~callLogs[j].success
    /\ callLogs[i].toolId = callLogs[j].toolId
    /\ callLogs[i].toolId \in DOMAIN tools
    /\ tools[callLogs[i].toolId].usage.totalCalls = 2

\* C8: a callTool of an agent that has an active session, when it finishes,
\* raises totalCalls and one of successfulCalls / failedCalls of exactly one
\* session, an active session of that agent, and changes no other session.
CallUpdatesOneSession ==
  [][Len(callLogs') = Len(callLogs) + 1 =>
       LET a == callLogs'[Len(callLogs')].agentId
       IN ActiveSessions(a) # {} =>
            \E i \in ActiveSessions(a) :
              /\ sessions'[i].totalCalls = sessions[i].totalCalls + 1
              /\ sessions'[i].successfulCalls + sessions'[i].failedCalls
                   = sessions[i].successfulCalls + sessions[i].failedCalls + 1
              /\ \A j \in DOMAIN sessions \ {i} : sessions'[j] = sessions[j]]_vars

\* C9: a call is dispatched to the tool's implementation only if the tool's
\* id or category is allowed to the agent and the id is not blocked.
DispatchOnlyIfAuthorized ==
  \A c \in BagToSet(toolCalls) : c.authorized

\* C10: an agent never has more calls dispatched in one rate-limit window
\* than its maxCallsPerMinute.
CallsWithinQuota ==
  \A a \in Agents :
    agentPermissions[a].registered =>
      windowCalls[a] <= agentPermissions[a].maxCallsPerMinute

(***************************************************************************)
(* Error handling of the tool gateway                                      *)
(***************************************************************************)

\* C11: no call whose parameters violate the schema of its tool is
\* dispatched to the tool's implementation.
InvalidParametersNotDispatched ==
  \A c \in BagToSet(toolCalls) :
    SatisfiesSchema(tools[c.toolId].parameters, c.parameters)

\* the calls a step dispatches to executeTool
Dispatched ==
  {c \in BagToSet(toolCalls') : CopiesIn(c, toolCalls') > CopiesIn(c, toolCalls)}
\* the Call Record a step appends
Logged == callLogs'[Len(callLogs')]
\* a step is a callTool that ended in its catch block with this error
FailsWith(error) ==
  /\ Dispatched = {}
  /\ Len(callLogs') = Len(callLogs) + 1
  /\ ~Logged.success /\ Logged.error = error

\* C12: a callTool dispatches only for an agent that has a permission set,
\* and a callTool of an agent that has none ends with the not-registered
\* error, logged as a failure.
UnregisteredCallFails ==
  [][callsLeft' < callsLeft =>
       /\ \A c \in Dispatched : agentPermissions[c.agentId].registered
       /\ Dispatched = {} /\ ~agentPermissions[Logged.agentId].registered
            => FailsWith("Agent not registered for MCP")]_vars

\* C12, its case: an agent that was deactivated has called a tool, and the
\* call ended with the not-registered error.
DeactivatedAgentRefused ==
  \E k \in DOMAIN callLogs :
    /\ callLogs[k].agentId = "a1"
    /\ callLogs[k].toolId \in DOMAIN tools
    /\ ~callLogs[k].success
    /\ callLogs[k].error = "Agent not registered for MCP"
    /\ toolCalls = EmptyBag

\* C13: a callTool dispatches only a tool that is in the registry and
\* enabled, and a callTool of a registered agent for any other tool id ends
\* with the tool-unavailable error, logged as a failure.
UnavailableToolFails ==
  [][callsLeft' < callsLeft =>
       /\ \A c \in Dispatched : c.toolId \in DOMAIN tools /\ tools[c.toolId].enabled
       /\ ( /\ Dispatched = {}
            /\ agentPermissions[Logged.agentId].registered
            /\ ~(Logged.toolId \in DOMAIN tools /\ tools[Logged.toolId].enabled) )
            => FailsWith("Tool not found or disabled")]_vars

\* C13, its case: a call of a disabled tool and a call of an unregistered
\* id have both ended with the tool-unavailable error.
BothUnavailableRefused ==
  /\ ~tools["trading.place_order"].enabled
  /\ \E j, k \in DOMAIN callLogs :
       /\ callLogs[j].toolId = "trading.place_order"
       /\ callLogs[k].toolId = UnknownTool
       /\ callLogs[j].error = "Tool not found or disabled"
       /\ callLogs[k].error = "Tool not found or disabled"
  /\ toolCalls = EmptyBag

\* C14: a callTool dispatches only for an agent that has a session of
\* status 'active'.
NoCallWithoutSession ==
  [][\A c \in Dispatched : ActiveSessions(c.agentId) # {}]_vars

(***************************************************************************)
(* The lifecycle of an agent                                               *)
(***************************************************************************)

\* C15: an agent whose status is 'stopped' has no armed timer and no
\* session of status 'active'.
StoppedHasNoTimerNoSession ==
  \A a \in Agents :
    agentStates[a].status = "stopped" => LiveTimers(a) = {} /\ ActiveSessions(a) = {}

\* what a stopAgent of an already stopped agent leaves as it was
RestopChangesNothing ==
  /\ UNCHANGED <<activeLoops, agentStates, timers, startCalls, cycles>>
  /\ UNCHANGED <<agentPermissions, sessions, callLogs, tools>>

StoppedNeverErrors ==
  [][\A a \in Agents :
       agentStates[a].status = "stopped" => agentStates'[a].status # "error"]_vars

\* C18: while the status of an agent is 'paused', no tick begins a decision
\* cycle for it.
NoTickWhilePaused ==
  [][\A a \in Agents :
       agentStates[a].status = "paused" =>
         CopiesIn(Cycle(a, "decide", Live), cycles')
           <= CopiesIn(Cycle(a, "decide", Live), cycles)]_vars

\* C19: no step changes the status of an agent from 'stopped' or 'error' to
\* 'paused'.
PauseOnlyFromActive ==
  [][\A a \in Agents :
       agentStates[a].status \in {"stopped", "error"} =>
         agentStates'[a].status # "paused"]_vars

\* C20: a step that makes an agent 'active' that was not, an agent in
\* 'error' included, is the step of a startAgent call that arms the timer:
\* the call leaves its await of stopAgent, and a new timer is recorded.
OnlyStartActivates ==
  [][\A a \in Agents :
       agentStates'[a].status = "active" /\ agentStates[a].status # "active" =>
         /\ CopiesIn(StartCall(a, "stopwait"), startCalls')
              < CopiesIn(StartCall(a, "stopwait"), startCalls)
         /\ Len(timers') = Len(timers) + 1
         /\ activeLoops'[a] = Len(timers')]_vars

\* C20, its case: a cycle of the agent failed, which put it in 'error', and
\* a second startAgent, with no stop or pause before it, made it 'active'.
ErrorAgentRestarted ==
  \E a \in Agents :
    /\ ~overlapped[a]
    /\ agentStates[a].status = "active"
    /\ consecFails[a] > 0
    /\ \E t1, t2 \in TimersOf(a) :
         t1 < t2 /\ timers[t1].by = "start" /\ activeLoops[a] = t2

(***************************************************************************)
(* startAllAgents and stopAllAgents                                        *)
(***************************************************************************)

\* C21: when a startAllAgents or stopAllAgents call is over, startAgent or
\* stopAgent has been called for every agent of its list.
BatchProcessesAll ==
  batch.op = "none" => batch.processed = batch.listed

(***************************************************************************)
(* Failures of a decision cycle                                            *)
(***************************************************************************)

\* the cycles of `a` suspended in handleDecisionError
InErrorHandler(a) ==
  LET S == {c \in InFlightCycles(a) : c.pc = "he_wait"}
      RECURSIVE Sum(_)
      Sum(T) == IF T = {} THEN 0
                ELSE LET c == CHOOSE x \in T : TRUE
                     IN CopiesIn(c, cycles) + Sum(T \ {c})
  IN Sum(S)

\* C22: a step of the error handling of a failed cycle (the cycle enters
\* handleDecisionError, or leaves it) taken while the agent's failure count
\* is at or below the ceiling leaves the agent's timer armed.
FailureBelowCeilingKeepsTimer ==
  [][\A a \in Agents :
       InErrorHandler(a)' # InErrorHandler(a) /\ ErrorCount(a) <= ErrorThreshold
         => UNCHANGED <<timers, activeLoops>>]_vars

\* the status, counters, activeLoops entry and timers of one agent
AgentPart(a) ==
  <<agentStates[a], activeLoops[a], [t \in TimersOf(a) |-> timers[t]]>>

\* C23: a step of one agent (of its startAgent, stopAgent or pauseAgent, or
\* of one of its cycles, the failure of a cycle and the forced stop
\* included) leaves the status, counters and timers of every other agent as
\* they were.
OtherAgentsUntouched ==
  [][\A a \in Agents :
       NextAgent(a) => \A b \in Agents \ {a} : AgentPart(b)' = AgentPart(b)]_vars

\* C23, its case: repeated failures stopped a1 by force while a2, started
\* as well, is active with its timer armed.
ForcedStopBesideActiveAgent ==
  /\ \E t \in TimersOf("a1") : timers[t].by = "error"
  /\ agentStates["a1"].status = "stopped"
  /\ agentStates["a2"].status = "active"
  /\ LiveTimers("a2") = {activeLoops["a2"]}

\* The cycles that passed validation: awaiting executeDecision, or past it
PassedValidation == {c \in BagToSet(cycles) : c.pc \in {"execute", "mem_exec"}}
\* quantity * price > cash * maxRiskPerTrade, both sides times 100
CostExceedsLimit(d) ==
  (d.quantity * d.price) * 100 > PortfolioCash * AgentConfig.maxRiskPct

\* C24: a decision of any action type whose cost quantity * price exceeds
\* cash * maxRiskPerTrade is rejected: no cycle goes on to executeDecision
\* with such a decision.
CostlyDecisionRejected ==
  \A c \in PassedValidation : ~CostExceedsLimit(c.decision)

\* C25, as stated: executeDecision is invoked only for decisions that have an
\* action, a rationale and a symbol of the agent's allowed set.
ExecutedHasAllowedSymbol ==
  \A c \in PassedValidation :
    /\ c.decision.action # ""
    /\ c.decision.reasoning # ""
    /\ c.decision.symbol \in AgentConfig.symbols

\* C25, amended: executeDecision is invoked only for decisions that have an
\* action and a rationale and that name no symbol or a symbol of the agent's
\* allowed set.
ExecutedHasNoForeignSymbol ==
  \A c \in PassedValidation :
    /\ c.decision.action # ""
    /\ c.decision.reasoning # ""
    /\ c.decision.symbol # "" => c.decision.symbol \in AgentConfig.symbols

\* C25, its case: a decision that names no symbol passed validation and its
\* cycle awaits executeDecision.
SymbolLessDecisionExecuting ==
  \E c \in PassedValidation : c.pc = "execute" /\ c.decision.symbol = ""

LogBoundedAppendOnly ==
  [][/\ Len(callLogs') <= MaxCallLogs
     /\ callLogs' # callLogs =>
          LET n == Len(callLogs)
              m == Len(callLogs')
          IN /\ m = IF n + 1 > MaxCallLogs THEN MaxCallLogs ELSE n + 1
             /\ \A i \in 1..(m - 1) : callLogs'[i] = callLogs[i + (n + 1 - m)]]_vars

\* C28, its case: the log is full and the oldest records are gone; the
\* record of the call at instant 0 was the first to go.
OldestEvicted ==
  /\ Len(callLogs) = MaxCallLogs
  /\ callLogs[1].timestamp = 2
  /\ callLogs[MaxCallLogs].timestamp = MaxCallLogs - 1

\* The records of the calls of tool t in the log
RecordsOf(t) == {i \in DOMAIN callLogs : callLogs[i].toolId = t}
\* The sum of the durations of the records of S
RECURSIVE TotalDuration(_)
TotalDuration(S) ==
  IF S = {} THEN 0
  ELSE LET i == CHOOSE x \in S : TRUE
       IN callLogs[i].duration + TotalDuration(S \ {i})

\* C29: after any sequence of calls of a tool, its successRate is the number
\* of its successful calls divided by its totalCalls, and so lies between 0
\* and 1, and its avgResponseTime is the mean duration of those calls.
UsageIsRunningMean ==
  \A t \in DOMAIN tools :
    LET u == tools[t].usage
        successes == Cardinality({i \in RecordsOf(t) : callLogs[i].success})
    IN /\ u.totalCalls = Cardinality(RecordsOf(t))
       /\ u.successRate.n * u.totalCalls = successes * u.successRate.d
       /\ 0 <= u.successRate.n /\ u.successRate.n <= u.successRate.d
       /\ u.avgResponseTime.n * u.totalCalls = TotalDuration(RecordsOf(t)) * u.avgResponseTime.d

\* the calls whose executeTool a step ends
Completed ==
  {c \in BagToSet(toolCalls) : CopiesIn(c, toolCalls') < CopiesIn(c, toolCalls)}

\* C30: the Call Record of a call in flight is appended when the call
\* completes, behind every record the log holds then, whenever the call was
\* issued; issuing a call appends nothing.
LoggedInCompletionOrder ==
  [][/\ Dispatched # {} => callLogs' = callLogs
     /\ \A c \in Completed :
          /\ callLogs' = Append(callLogs, Logged)
          /\ Logged.agentId = c.agentId /\ Logged.toolId = c.toolId
          /\ Logged.parameters = c.parameters /\ Logged.timestamp = c.startTime]_vars

\* C30, its case: two calls of a1 were in flight together, the one issued
\* at instant 1 completed first and the one issued at instant 0 after it:
\* the log holds their records in that order.
LaterCallLoggedFirst ==
  /\ Len(callLogs) = 2
  /\ \A i \in 1..2 :
       /\ callLogs[i].agentId = "a1"
       /\ callLogs[i].success \/ callLogs[i].error = "tool failed"
  /\ callLogs[1].timestamp = 1 /\ callLogs[2].timestamp = 0

(***************************************************************************)
(* Termination of a cycle                                                  *)
(***************************************************************************)

\* C31: every decision cycle that starts eventually ends, also when the
\* decision provider never responds: from a state with cycles of a1 in
\* flight a state with none is reached.
EveryCycleEnds ==
  (NumCycles("a1") > 0) ~> (NumCycles("a1") = 0)

\* the cycles that a step moves past the fetch they were suspended in
FetchEnded ==
  {f \in BagToSet(fetching) : f.pc \in FetchNames
                               /\ CopiesIn(f, fetching') < CopiesIn(f, fetching)}
\* the decision requests sent, and the snapshots they were built from
Asked == {f \in BagToSet(fetching) : f.pc = "asked"}

\* C32: a snapshot fetch that fails does not fail the cycle. The step that
\* ends a fetch of a cycle, with data or with a failure, takes the cycle to
\* its next fetch or to the decision provider and never to the error
\* handler, and changes nothing of the agent; every request sent to the
\* provider was built from three snapshots, each from the backend or from
\* the fallback, and each fetch called the backend once.
FailedFetchFallsBack ==
  [][/\ \A f \in FetchEnded :
          /\ UNCHANGED <<agentStates, timers, activeLoops, consecFails>>
          /\ f.pc = "memory" => NumCycles(f.agent)' = NumCycles(f.agent) + 1
          /\ \A c \in BagToSet(cycles') :
               c.pc = "he_wait" => CopiesIn(c, cycles') <= CopiesIn(c, cycles)
          /\ \E g \in BagToSet(fetching') :
               /\ g.agent = f.agent
               /\ g.pc = (CASE f.pc = "market" -> "portfolio"
                            [] f.pc = "portfolio" -> "memory"
                            [] OTHER -> "asked")
               /\ g.data[f.pc] \in {"backend", "fallback"}
               /\ \A k \in FetchNames \ {f.pc} : g.data[k] = f.data[k]
               /\ CopiesIn(g, fetching') > CopiesIn(g, fetching)
     /\ \A g \in BagToSet(fetching') :
          /\ \A k \in FetchNames : g.attempts[k] <= 1
          /\ g.pc = "asked" => \A k \in FetchNames :
                                 g.attempts[k] = 1 /\ g.data[k] \in {"backend", "fallback"}]_vars

\* C32, its case: all three fetches of a cycle failed, the request was
\* built from the fallback snapshots and the cycle awaits the provider, the
\* agent still active.
ProviderAskedWithFallbacks ==
  /\ \E f \in Asked : \A k \in FetchNames : f.data[k] = "fallback" /\ f.attempts[k] = 1
  /\ \E c \in InFlightCycles("a1") : c.pc = "decide"
  /\ agentStates["a1"].status = "active"

(***************************************************************************)
(* Timers under overlapping calls                                          *)
(***************************************************************************)

\* C33: under any interleaving of startAgent, stopAgent and pauseAgent calls
\* of an agent, calls that begin while an earlier one is suspended
\* included, the agent has at most one live timer and a live timer is the
\* one activeLoops records.
LiveTimerIsRecorded ==
  \A a \in Agents :
    /\ Cardinality(LiveTimers(a)) <= 1
    /\ LiveTimers(a) \subseteq {activeLoops[a]}

\* C34: getActiveAgents, the keys of activeLoops, are exactly the agents
\* whose status is 'active': an agent has a timer recorded in activeLoops if
\* and only if its status is 'active'.
ActiveIffTimerRecorded ==
  \A a \in Agents : activeLoops[a] # NoTimer <=> agentStates[a].status = "active"

\* the startAgent calls that a step ends
StartEnded ==
  {c \in BagToSet(startCalls) : CopiesIn(c, startCalls') < CopiesIn(c, startCalls)
                                 /\ \A d \in BagToSet(startCalls') :
                                      CopiesIn(d, startCalls') <= CopiesIn(d, startCalls)}

\* C35: a startAgent that fails because loadAgent found no agent ends (it
\* rethrows) without arming a timer, and leaves the status and counters of
\* the agent, its entry of activeLoops and every timer as they were.
FailedStartChangesNothing ==
  [][\A a \in Agents :
       StartNotFound(a) =>
         /\ UNCHANGED <<agentStates, activeLoops, timers>>
         /\ \E c \in StartEnded : c.agent = a /\ c.pc = "load"]_vars

\* C35, its case: of two startAgent calls of a1 made one after the other one
\* armed a timer and the other found no agent: a1 is active with that one
\* timer, live and recorded.
StartFailedBesideArmedTimer ==
  /\ startsLeft = 0 /\ InFlightStarts("a1") = {} /\ ~overlapped["a1"]
  /\ Len(timers) = 1
  /\ LiveTimers("a1") = {1} /\ activeLoops["a1"] = 1
  /\ agentStates["a1"].status = "active"

(***************************************************************************)
(* The tools of an agent                                                   *)
(***************************************************************************)

\* C36: getAvailableTools returns exactly the registered tools that are
\* enabled, whose id is in the agent's allowed tools or whose category is in
\* its allowed categories, and whose id is not in its blocked tools, each
\* once; for an agent without permission set it returns the empty list.
AvailableToolsAreTheAuthorized ==
  [][queried'.left < queried.left =>
       LET a == queried'.agent
           result == queried'.result
           p == agentPermissions[a]
           returned_ids == {result[i] : i \in DOMAIN result}
       IN /\ ~p.registered => result = <<>>
          /\ Cardinality(returned_ids) = Len(result)
          /\ p.registered =>
               \A t \in ToolIds \cup {UnknownTool} :
                 t \in returned_ids <=>
                   /\ t \in DOMAIN tools
                   /\ tools[t].enabled
                   /\ t \in p.allowedTools \/ tools[t].category \in p.allowedCategories
                   /\ t \notin p.blockedTools]_vars

\* C36, its case: a1, with its stored permission set, was asked about. The
\* order tool is returned for its category alone, the sentiment tool is
\* returned, and the todo tool, whose category is allowed, is blocked.
CategoryToolReturnedBlockedToolNot ==
  /\ queried.agent = "a1"
  /\ agentPermissions["a1"] = PersistedData.agentPermissions["a1"]
  /\ queried.result = <<"trading.place_order", "analysis.market_sentiment">>

\* C37: activateForAllAgents attempts the activation of every agent of its
\* list, also after one that failed: the event it emits carries one result
\* per agent, in the order of the list, and its successCount is the number
\* of results that succeeded.
EveryAgentAttempted ==
  ~activateAll.running /\ activateAll.event # NoEvent =>
    LET e == activateAll.event
    IN /\ e.totalAgents = Len(activateAll.agents)
       /\ Len(e.results) = Len(activateAll.agents)
       /\ \A i \in DOMAIN e.results : e.results[i].agentId = activateAll.agents[i]
       /\ e.successCount = Cardinality({i \in DOMAIN e.results : e.results[i].success})

\* C37, its case: the activation of the first of two agents failed, the
\* second was activated all the same, and the event counts one success.
SecondActivatedAfterFailure ==
  /\ ~activateAll.running
  /\ activateAll.event.totalAgents = 2
  /\ activateAll.event.successCount = 1
  /\ ~activateAll.event.results[1].success
  /\ activateAll.event.results[2].success
  /\ agentPermissions[activateAll.event.results[2].agentId].registered

\* C38: once a session has status 'completed', neither its status nor its
\* endTime changes again.
CompletedSessionFrozen ==
  [][\A i \in DOMAIN sessions :
       sessions[i].status = "completed" =>
         /\ i \in DOMAIN sessions'
         /\ sessions'[i].id = sessions[i].id
         /\ sessions'[i].status = "completed"
         /\ sessions'[i].endTime = sessions[i].endTime]_vars

(***************************************************************************)
(* The performance counters                                                *)
(***************************************************************************)

\* C39: successfulDecisions never exceeds totalDecisions, and a step that
\* does not load the agent anew changes the counters only by ending a
\* cycle, which adds one to totalDecisions and one or nothing to
\* successfulDecisions, also while another cycle of the agent is in flight.
CountersStepByOne ==
  [][\A a \in Agents :
       LET p == agentStates[a]
           q == agentStates'[a]
       IN /\ q.successfulDecisions <= q.totalDecisions
          /\ Len(timers') = Len(timers) /\ <<q.totalDecisions, q.successfulDecisions>>
                                            # <<p.totalDecisions, p.successfulDecisions>>
             => /\ q.totalDecisions = p.totalDecisions + 1
                /\ q.successfulDecisions \in {p.successfulDecisions, p.successfulDecisions + 1}
                /\ NumCycles(a)' = NumCycles(a) - 1]_vars

\* C39, its case: both ticks of a2 began a cycle; one cycle has ended with
\* its decision executed and counted once in each counter, while the other
\* is still in flight, past executeDecision.
OverlappingCycleCounted ==
  /\ agentStates["a2"].totalDecisions = 1
  /\ agentStates["a2"].successfulDecisions = 1
  /\ NumCycles("a2") = 1
  /\ ticksLeft = 0
  /\ \E c \in InFlightCycles("a2") : c.pc = "mem_exec"
====
